---- MODULE Spec2Model ----
(***************************************************************************)
(* A model of the rotary-position-embedding GPT of                         *)
(* src/Model_Architectures/rope_arch.py.                                   *)
(*                                                                         *)
(* Floating-point values are symbolic terms: a tensor element is a record  *)
(* that names how it was computed (which input element, which cache entry, *)
(* which operation), so that two elements are equal exactly when the code  *)
(* computes them the same way from the same operands.  Tensors are         *)
(* functions over 0..n-1, as in the source.                                *)
(***************************************************************************)
EXTENDS Integers, Sequences, FiniteSets, TLC

(* ------------------------------ bounds --------------------------------- *)
\* largest block_size of a configuration
MaxBlock == 3
\* largest n_head of a configuration
MaxHead == 3
\* largest n_embed \div n_head of a configuration
MaxHeadDim == 4
\* largest batch size of an input
MaxBatch == 2
\* largest sequence length of an input
MaxSeq == 3
\* largest n_layer of a configuration
MaxLayer == 2
\* largest number of in-place writes to the tied weight after construction
MaxWrites == 2
\* number of transformer blocks of a pretrained checkpoint that are followed
MaxImportLayers == 1
\* largest length of st.session_state.chat_history that is followed
MaxHistory == 6
\* largest number of pieces of a checkpoint key
MaxKeyLen == 4

(* --------------------------- program constants -------------------------- *)
\* RotaryPositionEmbeddings.__init__(self, config, base=10_000)
Base == 10000
\* _init_weights: std = 0.02, kept as 1 / std^2
InitInvVar == 2500
\* gpt2_flash_sinusoidal.py: warmup_steps = 10
warmup_steps == 10
\* gpt2_flash_sinusoidal.py: max_steps = 20
max_steps == 20

VARIABLES
    config,   \* the GPTConfig the modules were constructed with
    model,    \* "none" before construction, "built", or "rejected" (constructor raised)
    theta,    \* RotaryPositionEmbeddings.theta buffer
    cache,    \* RotaryPositionEmbeddings.cache buffer
    param,    \* parameter name -> the tensor it is bound to
    tensor,   \* tensor -> its value: how it was initialised, and the writes since
    call,     \* the most recent forward call: its input, locals and outcome
    prev,     \* the forward call before it, kept when the two inputs share a prefix
    imp,      \* the run of rope_GPT.from_pretrained: its position and what it has copied
    st,       \* app.py: st.session_state, the text input widget, and the last script run
    ckpt,     \* app.py: the checkpoint load_local_model read and what it handed to the model
    train     \* gpt2_flash_sinusoidal.py: the training loop's step, learning rates and log

vars == <<config, model, theta, cache, param, tensor, call, prev, imp, st, ckpt, train>>

(* ------------------------------ helpers -------------------------------- *)
Min(a, b) == IF a <= b THEN a ELSE b

RECURSIVE GCD(_, _)
GCD(a, b) == IF b = 0 THEN a ELSE GCD(b, a % b)

NoCall == [kind |-> "none"]

(* The size of one dimension after broadcasting sizes a and b, or -1 when   *)
(* the sizes cannot be broadcast together.                                 *)
Broadcast(a, b) ==
    IF a = b THEN a ELSE IF a = 1 THEN b ELSE IF b = 1 THEN a ELSE -1

\* the index into a dimension of size n that index i of the broadcast result reads
BIndex(n, i) == IF n = 1 THEN 0 ELSE i

(* ---------------------- RotaryPositionEmbeddings ------------------------ *)
(* theta[j] = base ^ (-2j / dim), kept as the reduced fraction of the       *)
(* exponent; dim is self.dim = config.n_embed.                             *)
ThetaOf(dim, j) ==
    LET g == GCD(2 * j, dim)
    IN  [base |-> Base, num |-> (2 * j) \div g, den |-> dim \div g]

rope_init(cfg) ==
    LET dim == cfg.n_embed
    IN  [j \in 0 .. (dim \div 2) - 1 |-> ThetaOf(dim, j)]

\* an angle that grows with the square of the position
AngleOf_squared(p, th) ==
    IF p = 0 THEN [pos |-> 0, base |-> Base, num |-> 0, den |-> 1]
    ELSE [pos |-> p * p, base |-> th.base, num |-> th.num, den |-> th.den]

\* seq_idx[p] * theta[j]; position 0 times anything is the angle 0
AngleOf(p, th) ==
    IF p = 0 THEN [pos |-> 0, base |-> Base, num |-> 0, den |-> 1]
    ELSE [pos |-> p, base |-> th.base, num |-> th.num, den |-> th.den]

build_rope_cache(cfg, th) ==
    LET hs_half == (cfg.n_embed \div cfg.n_head) \div 2
        ncols   == Min(hs_half, cfg.n_embed \div 2)
    IN  [rows |-> cfg.block_size,
         cols |-> ncols,
         at   |-> [p \in 0 .. cfg.block_size - 1 |->
                     [j \in 0 .. ncols - 1 |->
                        [c \in 0 .. 1 |->
                           [fn  |-> IF c = 0 THEN "cos" ELSE "sin",
                            ang |-> AngleOf(p, th[j])]]]]]

Mul(a, b) == [op |-> "mul", l |-> a, r |-> b]
Sub(a, b) == [op |-> "sub", l |-> a, r |-> b]
Add(a, b) == [op |-> "add", l |-> a, r |-> b]

\* the rotation with the sign of the sine term of the even element flipped
RotatePair_signflip(x0, x1, rc, e) ==
    IF e % 2 = 0
    THEN Add(Mul(x0, rc[0]), Mul(x1, rc[1]))
    ELSE Add(Mul(x1, rc[0]), Mul(x0, rc[1]))

(* Element e of torch.stack([x0 * cos - x1 * sin, x1 * cos + x0 * sin]),     *)
(* rc = (cos, sin) being the cache entry the pair is multiplied with.        *)
RotatePair(x0, x1, rc, e) ==
    IF e % 2 = 0
    THEN Sub(Mul(x0, rc[0]), Mul(x1, rc[1]))
    ELSE Add(Mul(x1, rc[0]), Mul(x0, rc[1]))

\* a slice that keeps the last rows of the cache in place of the first
Slice_suffix(ch, seq_len, hs) ==
    LET R  == Min(seq_len, ch.rows)
        Cc == Min(hs \div 2, ch.cols)
    IN  [rows |-> R, cols |-> Cc,
         at |-> [p \in 0 .. R - 1 |-> [j \in 0 .. Cc - 1 |-> ch.at[ch.rows - R + p][j]]]]

\* rope_cache = self.cache[:seq_len, :hs // 2]
Slice(ch, seq_len, hs) ==
    LET R  == Min(seq_len, ch.rows)
        Cc == Min(hs \div 2, ch.cols)
    IN  [rows |-> R, cols |-> Cc,
         at |-> [p \in 0 .. R - 1 |-> [j \in 0 .. Cc - 1 |-> ch.at[p][j]]]]

(* RotaryPositionEmbeddings.forward on x of shape <<b, seq_len, nh, hs>>.   *)
(* The result records the steps completed, the error raised (if any), the  *)
(* number of cache rows the slice kept, and the rotated tensor.            *)
Rope_forward(ch, x, shape) ==
    LET b       == shape[1]
        seq_len == shape[2]
        nh      == shape[3]
        hs      == shape[4]
        rope_cache == Slice(ch, seq_len, hs)
        R       == Min(seq_len, ch.rows)
        Cc      == Min(hs \div 2, ch.cols)
        S       == Broadcast(seq_len, R)
        P       == Broadcast(hs \div 2, Cc)
    IN  IF hs % 2 # 0
        THEN [status |-> "error", err |-> "reshape", done |-> <<"slice">>,
              rows |-> R, shape |-> <<>>, out |-> <<>>]
        ELSE IF S = -1 \/ P = -1
        THEN [status |-> "error", err |-> "broadcast", done |-> <<"slice", "reshape">>,
              rows |-> R, shape |-> <<>>, out |-> <<>>]
        ELSE [status |-> "ok", err |-> "", done |-> <<"slice", "reshape", "rotate">>,
              rows |-> R, shape |-> <<b, S, nh, 2 * P>>,
              out |->
                [bi \in 0 .. b - 1 |-> [s \in 0 .. S - 1 |-> [h \in 0 .. nh - 1 |->
                   [e \in 0 .. 2 * P - 1 |->
                      LET i  == e \div 2
                          x0 == x[bi][BIndex(seq_len, s)][h][2 * BIndex(hs \div 2, i)]
                          x1 == x[bi][BIndex(seq_len, s)][h][2 * BIndex(hs \div 2, i) + 1]
                          rc == rope_cache.at[BIndex(R, s)][BIndex(Cc, i)]
                      IN  RotatePair(x0, x1, rc, e)]]]]]

(* ------------------------- CausalSelfAttention -------------------------- *)
(* c_attn(x) has 3 * n_embed columns per position.  Column col of the       *)
(* projection of the input row at position row is the element               *)
(* [row, col]; the rows themselves are carried beside the elements (env).   *)
QKV(row, col) == [row |-> row, col |-> col]

(* q, k, v after split, view(B, T, n_head, hs) and transpose(1, 2):         *)
(* shape <<B, n_head, T, hs>>; part 0, 1, 2 selects q, k, v.                *)
HeadView(cfg, part, B, T) ==
    LET hs == cfg.n_embed \div cfg.n_head
    IN  [b \in 0 .. B - 1 |-> [h \in 0 .. cfg.n_head - 1 |-> [t \in 0 .. T - 1 |->
           [e \in 0 .. hs - 1 |-> QKV(t, part * cfg.n_embed + h * hs + e)]]]]

\* attention without the causal mask: every position of the sequence
Attended_unmasked(t, T) == 0 .. T - 1

\* the key/value positions a query at position t attends to under is_causal=True
Attended(t, T) == 0 .. t

(* F.scaled_dot_product_attention(q, k, v, is_causal=True) for one batch    *)
(* element, head and query position.                                       *)
SDPA(q, k, v, b, h, t, T, hs) ==
    [q     |-> q[b][h][t],
     keys  |-> [s \in Attended(t, T) |-> k[b][h][s]],
     vals  |-> [s \in Attended(t, T) |-> v[b][h][s]],
     scale |-> hs]

(* q = self.rope(q) and k = self.rope(k): rope is handed the transposed     *)
(* tensors, of shape <<B, n_head, T, hs>>.                                  *)
Attn_rope(cfg, ch, B, T) ==
    LET shape == <<B, cfg.n_head, T, cfg.n_embed \div cfg.n_head>>
    IN  [q |-> Rope_forward(ch, HeadView(cfg, 0, B, T), shape),
         k |-> Rope_forward(ch, HeadView(cfg, 1, B, T), shape)]

(* CausalSelfAttention.forward on x of shape <<B, T, n_embed>>.             *)
(* att[b][h][t] is the attention of head h at query position t over the     *)
(* elements of c_attn(x): it names elements by (row, col) and so is the     *)
(* same for every input of one shape.  out[b][t] is c_proj of the heads of  *)
(* position t: a function of att[b][.][t] and of the input rows those heads *)
(* read (env), which is what the output row carries.                        *)
Attn_forward(cfg, ch, x, B, T) ==
    LET hs    == cfg.n_embed \div cfg.n_head
        v     == HeadView(cfg, 2, B, T)
        qk    == Attn_rope(cfg, ch, B, T)
        rq    == qk.q
        rk    == qk.k
        pre   == <<"c_attn", "split", "view">>
        att   == [b \in 0 .. B - 1 |-> [h \in 0 .. cfg.n_head - 1 |->
                    [t \in 0 .. T - 1 |-> SDPA(rq.out, rk.out, v, b, h, t, T, hs)]]]
    IN  IF rq.status = "error"
        THEN [status |-> "error", err |-> rq.err, done |-> pre \o rq.done,
              rows |-> rq.rows, shape |-> <<>>, out |-> <<>>]
        ELSE [status |-> "ok", err |-> "",
              done |-> pre \o rq.done \o rk.done \o <<"sdpa", "c_proj">>,
              rows |-> rq.rows, shape |-> <<B, T, cfg.n_head * hs>>,
              out |->
                [b \in 0 .. B - 1 |-> [t \in 0 .. T - 1 |->
                   LET refs == {t} \cup UNION { DOMAIN att[b][h][t].keys :
                                                  h \in 0 .. cfg.n_head - 1 }
                   IN  [op  |-> "c_proj(sdpa)",
                        t   |-> t,
                        env |-> [s \in refs |-> x[b][s]]]]]]

(* ------------------------------- Block ---------------------------------- *)
LayerNorm(name, l, row) == [op |-> name, layer |-> l, in |-> row]

(* x + attn(ln_1(x)) at one position.  The residual operand x is the row    *)
(* inside env[t] of the attention term a, so the term does not repeat it.   *)
AttnResidual(l, a) == [op |-> "x+attn(ln_1(x))", layer |-> l, attn |-> a]

\* x + mlp(ln_2(x)) at one position: MLP.forward works on each row alone
MLP_forward(l, row) == [op |-> "x+mlp(ln_2(x))", layer |-> l, x |-> row]

(* Block.forward of block l: x + attn(ln_1(x)), then x + mlp(ln_2(x)).      *)
Block_forward(cfg, ch, l, x, B, T) ==
    LET n1 == [b \in 0 .. B - 1 |-> [t \in 0 .. T - 1 |-> LayerNorm("ln_1", l, x[b][t])]]
        a  == Attn_forward(cfg, ch, n1, B, T)
    IN  IF a.status = "error"
        THEN [status |-> "error", err |-> a.err, done |-> <<"ln_1">> \o a.done, x |-> <<>>]
        ELSE [status |-> "ok", err |-> "", done |-> <<>>,
              x |-> [b \in 0 .. B - 1 |-> [t \in 0 .. T - 1 |->
                       MLP_forward(l, AttnResidual(l, a.out[b][t]))]]]

RECURSIVE Blocks(_, _, _, _, _, _)
\* for block in self.transformer.h: x = block(x), from block l on
Blocks(cfg, ch, l, x, B, T) ==
    IF l >= cfg.n_layer THEN [status |-> "ok", err |-> "", done |-> <<>>, x |-> x]
    ELSE LET r == Block_forward(cfg, ch, l, x, B, T)
         IN  IF r.status = "error" THEN r
             ELSE Blocks(cfg, ch, l + 1, r.x, B, T)

(* ------------------------------ rope_GPT -------------------------------- *)
(* rope_GPT.forward on idx of shape <<B, T>>; targets are given or not.     *)
GPT_forward(cfg, ch, idx, B, T, hasTargets) ==
    IF ~(T <= cfg.block_size)
    THEN [status |-> "error", err |-> "assert", done |-> <<>>, rows |-> 0,
          shape |-> <<>>, out |-> <<>>, loss |-> [present |-> FALSE]]
    ELSE LET tok_emb == [b \in 0 .. B - 1 |-> [t \in 0 .. T - 1 |->
                           [op |-> "wte", tok |-> idx[b][t]]]]
             r == Blocks(cfg, ch, 0, tok_emb, B, T)
         IN  IF r.status = "error"
             THEN [status |-> "error", err |-> r.err, done |-> <<"wte">> \o r.done, rows |-> 0,
                   shape |-> <<>>, out |-> <<>>, loss |-> [present |-> FALSE]]
             ELSE LET logits == [b \in 0 .. B - 1 |-> [t \in 0 .. T - 1 |->
                                   [op |-> "lm_head",
                                    in |-> LayerNorm("ln_f", cfg.n_layer, r.x[b][t])]]]
                  IN  [status |-> "ok", err |-> "",
                       done |-> <<"wte", "blocks", "ln_f", "lm_head">>, rows |-> 0,
                       shape |-> <<B, T, cfg.vocab_size>>,
                       out |-> logits,
                       loss |-> IF hasTargets
                                THEN [present |-> TRUE, op |-> "cross_entropy",
                                      targets |-> idx]
                                ELSE [present |-> FALSE]]

(* --------------------- modules and their parameters -------------------- *)
Module(l, n, ty, flag, hasBias) ==
    [layer |-> l, name |-> n, type |-> ty, scale_init |-> flag, bias |-> hasBias]

(* The modules of Block l that own parameters, in the order apply() visits   *)
(* them.  Only CausalSelfAttention.c_proj carries NANOGPT_SCALE_INIT.        *)
BlockModules(l) ==
    << Module(l, "ln_1", "LayerNorm", FALSE, TRUE),
       Module(l, "attn.c_attn", "Linear", FALSE, TRUE),
       Module(l, "attn.c_proj", "Linear", TRUE, TRUE),
       Module(l, "ln_2", "LayerNorm", FALSE, TRUE),
       Module(l, "mlp.c_fc", "Linear", FALSE, TRUE),
       Module(l, "mlp.c_proj", "Linear", FALSE, TRUE) >>

RECURSIVE BlocksModules(_, _)
BlocksModules(l, n) == IF l >= n THEN <<>> ELSE BlockModules(l) \o BlocksModules(l + 1, n)

\* the modules of rope_GPT that own parameters, in the order apply() visits them
Modules(cfg) ==
    << Module(-1, "transformer.wte", "Embedding", FALSE, FALSE),
       Module(-1, "transformer.wpe", "Embedding", FALSE, FALSE) >>
    \o BlocksModules(0, cfg.n_layer)
    \o << Module(-1, "transformer.ln_f", "LayerNorm", FALSE, TRUE),
          Module(-1, "lm_head", "Linear", FALSE, FALSE) >>

Slot(m, p) == [layer |-> m.layer, name |-> m.name, p |-> p]

Slots(cfg) ==
    LET ms == Modules(cfg)
    IN  { Slot(ms[i], "weight") : i \in DOMAIN ms }
        \cup { Slot(ms[i], "bias") : i \in { k \in DOMAIN ms : ms[k].bias } }

Wte == [layer |-> -1, name |-> "transformer.wte", p |-> "weight"]
LmHead == [layer |-> -1, name |-> "lm_head", p |-> "weight"]

\* a parameter as its module's constructor leaves it
DefaultTensor == [dist |-> "default", ivar |-> 0, writes |-> <<>>]

\* every parameter bound to a tensor of its own (named after the parameter)
NewParams(cfg) == [s \in Slots(cfg) |-> s]

\* lm_head keeps a tensor of its own
TieWeights_untied(prm) == prm

\* self.lm_head.weight = self.transformer['wte'].weight
TieWeights(prm) == [prm EXCEPT ![LmHead] = prm[Wte]]

(* rope_GPT._init_weights(module): normal_ and zeros_ write in place into    *)
(* the tensor the parameter is bound to.                                     *)
_init_weights(m, cfg, prm, tns) ==
    IF m.type = "Linear"
    THEN LET ivar == IF m.scale_init THEN InitInvVar * (2 * cfg.n_layer) ELSE InitInvVar
             w    == [tns EXCEPT ![prm[Slot(m, "weight")]] =
                        [dist |-> "normal", ivar |-> ivar, writes |-> <<>>]]
         IN  IF m.bias
             THEN [w EXCEPT ![prm[Slot(m, "bias")]] =
                     [dist |-> "zeros", ivar |-> 0, writes |-> <<>>]]
             ELSE w
    ELSE IF m.type = "Embedding"
    THEN [tns EXCEPT ![prm[Slot(m, "weight")]] =
            [dist |-> "normal", ivar |-> InitInvVar, writes |-> <<>>]]
    ELSE tns

RECURSIVE apply(_, _, _, _, _)
\* self.apply(self._init_weights), from module i of ms on
apply(ms, i, cfg, prm, tns) ==
    IF i > Len(ms) THEN tns
    ELSE apply(ms, i + 1, cfg, prm, _init_weights(ms[i], cfg, prm, tns))

(* ------------------------- configurations ------------------------------ *)
\* token values; vocab_size is their number
Tokens == {0, 1}

Configs ==
    { [block_size |-> bs, vocab_size |-> Cardinality(Tokens), n_layer |-> nl,
       n_head |-> nh, n_embed |-> ne] :
        bs \in 1 .. MaxBlock, nl \in 1 .. MaxLayer, nh \in 1 .. MaxHead,
        ne \in 1 .. MaxHead * MaxHeadDim }

HeadDim(cfg) == cfg.n_embed \div cfg.n_head

Init ==
    /\ config = [block_size |-> 0, vocab_size |-> 0, n_layer |-> 0,
                 n_head |-> 0, n_embed |-> 0]
    /\ model = "none"
    /\ theta = <<>>
    /\ cache = [rows |-> 0, cols |-> 0, at |-> <<>>]
    /\ param = <<>>
    /\ tensor = <<>>
    /\ call = NoCall
    /\ prev = NoCall
    /\ imp = [pc |-> "idle"]
    /\ st = [local_model_cache |-> {}, chat_history |-> <<>>, user_input |-> "",
             run |-> "none"]
    /\ ckpt = [pc |-> "idle"]
    /\ train = [pc |-> "accumulate", i |-> 0, micro_step |-> 0,
                lr |-> [kind |-> "linear", num |-> 10, den |-> 10],
                stepped |-> <<>>, log |-> <<>>]

(* ---------------- direct use of RotaryPositionEmbeddings ---------------- *)
\* an input whose elements are all distinct symbols
RopeInput(shape) ==
    [bi \in 0 .. shape[1] - 1 |-> [s \in 0 .. shape[2] - 1 |-> [h \in 0 .. shape[3] - 1 |->
        [e \in 0 .. shape[4] - 1 |-> [b |-> bi, s |-> s, h |-> h, e |-> e]]]]]

RopeShapes ==
    { <<b, s, nh, hs>> : b \in 1 .. MaxBatch, s \in 1 .. MaxSeq,
                         nh \in 1 .. MaxHead, hs \in 1 .. MaxHeadDim }

\* RotaryPositionEmbeddings(config): __init__ runs rope_init, which builds the cache
RopeConstruct ==
    /\ model = "none"
    /\ \E cfg \in Configs :
         /\ cfg.n_layer = 1
         /\ cfg.n_embed % cfg.n_head = 0
         /\ HeadDim(cfg) <= MaxHeadDim
         /\ config' = cfg
         /\ theta' = rope_init(cfg)
         /\ cache' = build_rope_cache(cfg, rope_init(cfg))
    /\ model' = "rope"
    /\ UNCHANGED <<param, tensor, call, prev, imp, st, ckpt, train>>

(* rope(x) on a tensor of any 4-dimensional shape.  forward leaves the       *)
(* module as it was, so a later call starts from the state this one does.   *)
RopeCall ==
    /\ model = "rope"
    /\ call = NoCall
    /\ \E shape \in RopeShapes :
         LET x == RopeInput(shape)
             r == Rope_forward(cache, x, shape)
         IN  call' = [kind |-> "rope", x |-> x, inShape |-> shape, res |-> r]
    /\ UNCHANGED <<config, model, theta, cache, param, tensor, prev, imp, st, ckpt, train>>

NextRope == RopeConstruct \/ RopeCall

SpecRope == Init /\ [][NextRope]_vars

(* ------------------------ forward calls on a model ---------------------- *)
(* rope_GPT(config).  Block(config) constructs CausalSelfAttention, whose   *)
(* assertion rejects an n_embed that n_head does not divide; every block    *)
(* builds the same rotation cache.  The constructor then ties lm_head to    *)
(* wte and applies _init_weights to every module.                           *)
Construct ==
    /\ model = "none"
    /\ \E cfg \in Configs :
         /\ HeadDim(cfg) <= MaxHeadDim
         /\ config' = cfg
         /\ IF cfg.n_embed % cfg.n_head = 0
            THEN /\ model' = "built"
                 /\ theta' = rope_init(cfg)
                 /\ cache' = build_rope_cache(cfg, rope_init(cfg))
                 /\ param' = TieWeights(NewParams(cfg))
                 /\ tensor' = apply(Modules(cfg), 1, cfg, TieWeights(NewParams(cfg)),
                                    [s \in Slots(cfg) |-> DefaultTensor])
            ELSE /\ model' = "rejected"
                 /\ UNCHANGED <<theta, cache, param, tensor>>
    /\ UNCHANGED <<call, prev, imp, st, ckpt, train>>

\* the input sequences: batch element b holds the values of seq shifted by b
SeqInputs == UNION { [0 .. T - 1 -> Tokens] : T \in 1 .. MaxSeq }

Shifted(seq, B) ==
    [b \in 0 .. B - 1 |-> [t \in DOMAIN seq |-> (seq[t] + b) % Cardinality(Tokens)]]

RECURSIVE SeqCode(_, _)
\* the values of seq from position t on, read as a number
SeqCode(seq, t) ==
    IF t \notin DOMAIN seq THEN 0
    ELSE seq[t] + Cardinality(Tokens) * SeqCode(seq, t + 1)

(* The first call takes any input.  A second call is the same call (same     *)
(* kind, shape and presence of targets) on another input that agrees with    *)
(* the first at position 0; each unordered pair of inputs is taken once.     *)
(* A call that raised ends the run.                                          *)
MayFollow(c, kind, B, seq, hasTargets) ==
    \/ c = NoCall
    \/ /\ c.kind = kind
       /\ c.res.status = "ok"
       /\ c.B = B
       /\ c.hasTargets = hasTargets
       /\ DOMAIN c.seq = DOMAIN seq
       /\ c.seq[0] = seq[0]
       /\ SeqCode(c.seq, 0) < SeqCode(seq, 0)

\* model.transformer.h[0].attn(x), x of shape <<B, T, n_embed>>
AttnForward ==
    /\ model = "built"
    /\ prev = NoCall
    /\ \E B \in 1 .. MaxBatch, seq \in SeqInputs :
         /\ MayFollow(call, "attn", B, seq, FALSE)
         /\ LET T == Cardinality(DOMAIN seq)
                v == Shifted(seq, B)
                x == [b \in 0 .. B - 1 |-> [t \in 0 .. T - 1 |->
                        [op |-> "in", id |-> v[b][t]]]]
            IN  call' = [kind |-> "attn", B |-> B, T |-> T, seq |-> seq,
                         hasTargets |-> FALSE, x |-> x,
                         res |-> Attn_forward(config, cache, x, B, T)]
    /\ prev' = call
    /\ UNCHANGED <<config, model, theta, cache, param, tensor, imp, st, ckpt, train>>

\* model(idx) or model(idx, targets), idx of shape <<B, T>>
GPTForward ==
    /\ model = "built"
    /\ prev = NoCall
    /\ \E B \in 1 .. MaxBatch, seq \in SeqInputs, hasTargets \in BOOLEAN :
         /\ MayFollow(call, "gpt", B, seq, hasTargets)
         /\ LET T == Cardinality(DOMAIN seq)
                idx == Shifted(seq, B)
            IN  call' = [kind |-> "gpt", B |-> B, T |-> T, seq |-> seq,
                         hasTargets |-> hasTargets, x |-> idx,
                         res |-> GPT_forward(config, cache, idx, B, T, hasTargets)]
    /\ prev' = call
    /\ UNCHANGED <<config, model, theta, cache, param, tensor, imp, st, ckpt, train>>

NextFwd == Construct \/ AttnForward \/ GPTForward

SpecFwd == Init /\ [][NextFwd]_vars

(* --------------------- writes to the weights of a model ----------------- *)
\* the tensors the parameters of the model are bound to, each once
Parameters == { param[s] : s \in DOMAIN param }

Written(t, tag) == [t EXCEPT !.writes = Append(@, tag)]

(* optimizer.step(): AdamW updates every parameter tensor in place;          *)
(* named_parameters() lists a shared tensor once.                            *)
OptimizerStep ==
    /\ model = "built"
    /\ Len(tensor[param[Wte]].writes) < MaxWrites
    /\ tensor' = [t \in DOMAIN tensor |->
                    IF t \in Parameters THEN Written(tensor[t], "step") ELSE tensor[t]]
    /\ UNCHANGED <<config, model, theta, cache, param, call, prev, imp, st, ckpt, train>>

(* sd[k].copy_(v) for k one of the two names of the token embedding: an      *)
(* in-place copy into the tensor the name is bound to.                       *)
CopyInto ==
    /\ model = "built"
    /\ Len(tensor[param[Wte]].writes) < MaxWrites
    /\ \E k \in {Wte, LmHead} :
         tensor' = [tensor EXCEPT ![param[k]] = Written(@, k.name)]
    /\ UNCHANGED <<config, model, theta, cache, param, call, prev, imp, st, ckpt, train>>

NextWeights == Construct \/ OptimizerStep \/ CopyInto

SpecWeights == Init /\ [][NextWeights]_vars

(* --------------------- rope_GPT.from_pretrained ------------------------- *)
\* config_args of each model type, with vocab_size and block_size as set at lines 262-263
ModelTypes ==
    [gpt2          |-> [n_layer |-> 12, n_head |-> 12, n_embed |-> 768],
     gpt2_medium   |-> [n_layer |-> 24, n_head |-> 16, n_embed |-> 1024],
     gpt2_large    |-> [n_layer |-> 36, n_head |-> 20, n_embed |-> 1280],
     gpt2_xl       |-> [n_layer |-> 48, n_head |-> 25, n_embed |-> 1600]]

PretrainedConfig(model_type) ==
    [block_size |-> 1024, vocab_size |-> 50257,
     n_layer |-> ModelTypes[model_type].n_layer,
     n_head |-> ModelTypes[model_type].n_head,
     n_embed |-> ModelTypes[model_type].n_embed]

Key(l, n) == [layer |-> l, name |-> n]

\* the state_dict entries of Block l, in order; attn.bias is the mask buffer
BlockKeys(l) ==
    << Key(l, "ln_1.weight"), Key(l, "ln_1.bias"),
       Key(l, "attn.bias"),
       Key(l, "attn.c_attn.weight"), Key(l, "attn.c_attn.bias"),
       Key(l, "attn.c_proj.weight"), Key(l, "attn.c_proj.bias"),
       Key(l, "ln_2.weight"), Key(l, "ln_2.bias"),
       Key(l, "mlp.c_fc.weight"), Key(l, "mlp.c_fc.bias"),
       Key(l, "mlp.c_proj.weight"), Key(l, "mlp.c_proj.bias") >>

RECURSIVE BlocksKeys(_, _)
BlocksKeys(l, n) == IF l >= n THEN <<>> ELSE BlockKeys(l) \o BlocksKeys(l + 1, n)

\* model.state_dict().keys(), for the first MaxImportLayers blocks
StateDictKeys(cfg) ==
    << Key(-1, "transformer.wte.weight"), Key(-1, "transformer.wpe.weight") >>
    \o BlocksKeys(0, Min(cfg.n_layer, MaxImportLayers))
    \o << Key(-1, "transformer.ln_f.weight"), Key(-1, "transformer.ln_f.bias"),
          Key(-1, "lm_head.weight") >>

\* k.endswith('attn.bias'): true of the mask buffer and of attn.c_attn.bias
EndsWithAttnBias(k) == k.name \in {"attn.bias", "attn.c_attn.bias"}

\* sd_keys = [k for k in sd_keys if not k.endswith('attn.bias')]
FilterKeys(keys) == SelectSeq(keys, LAMBDA k : ~EndsWithAttnBias(k))

\* any(k.endswith(x) for x in transposed)
Transposed(k) ==
    k.name \in {"attn.c_attn.weight", "attn.c_proj.weight",
                "mlp.c_fc.weight", "mlp.c_proj.weight"}

\* sd[k].shape
TargetShape(cfg, k) ==
    LET C == cfg.n_embed
    IN  CASE k.name \in {"transformer.wte.weight", "lm_head.weight"} -> <<cfg.vocab_size, C>>
          [] k.name = "transformer.wpe.weight" -> <<cfg.block_size, C>>
          [] k.name = "attn.c_attn.weight" -> <<3 * C, C>>
          [] k.name = "attn.c_attn.bias" -> <<3 * C>>
          [] k.name = "attn.c_proj.weight" -> <<C, C>>
          [] k.name = "mlp.c_fc.weight" -> <<4 * C, C>>
          [] k.name = "mlp.c_fc.bias" -> <<4 * C>>
          [] k.name = "mlp.c_proj.weight" -> <<C, 4 * C>>
          [] k.name = "attn.bias" -> <<1, 1, cfg.block_size, cfg.block_size>>
          [] OTHER -> <<C>>

\* shape[::-1]
Reversed(shape) == [i \in DOMAIN shape |-> shape[Len(shape) + 1 - i]]

(* sd_hf[k].shape: the source keeps the four transposed weights as           *)
(* (in, out); a key in bad has another shape than the one the target needs.  *)
SourceShape(cfg, k, bad) ==
    LET good == IF Transposed(k) THEN Reversed(TargetShape(cfg, k))
                ELSE TargetShape(cfg, k)
    IN  IF k \in bad THEN [good EXCEPT ![1] = @ + 1] ELSE good

\* the assertion of the loop body on key k
ShapeAccepted(cfg, k, bad) ==
    IF Transposed(k)
    THEN TargetShape(cfg, k) = Reversed(SourceShape(cfg, k, bad))
    ELSE TargetShape(cfg, k) = SourceShape(cfg, k, bad)

\* the source checkpoints: at most one parameter has a shape that does not match
ParameterKeys(cfg) ==
    { StateDictKeys(cfg)[i] : i \in DOMAIN StateDictKeys(cfg) } \ { Key(l, "attn.bias") : l \in 0 .. MaxImportLayers }

Sources(cfg) == {{}} \cup { {k} : k \in ParameterKeys(cfg) }

(* rope_GPT.from_pretrained(model_type), up to the copy loop.  The module    *)
(* does not define the name GPT that line 266 calls: the call raises         *)
(* NameError unless the importing program has bound it (gptBound).           *)
FromPretrained ==
    /\ imp.pc = "idle"
    /\ \E model_type \in DOMAIN ModelTypes \cup {"other"}, gptBound \in BOOLEAN,
          keysMatch \in BOOLEAN :
         IF model_type \notin DOMAIN ModelTypes
         THEN imp' = [pc |-> "error", err |-> "AssertionError", model_type |-> model_type,
                      bad |-> {}, i |-> 0, loaded |-> {}]
         ELSE \E bad \in Sources(PretrainedConfig(model_type)) :
                IF ~gptBound
                THEN imp' = [pc |-> "error", err |-> "NameError", model_type |-> model_type,
                             bad |-> bad, i |-> 0, loaded |-> {}]
                ELSE IF ~keysMatch
                THEN imp' = [pc |-> "error", err |-> "AssertionError",
                             model_type |-> model_type, bad |-> bad, i |-> 0,
                             loaded |-> {}]
                ELSE imp' = [pc |-> "copying", err |-> "", model_type |-> model_type,
                             bad |-> bad, i |-> 1, loaded |-> {}]
    /\ UNCHANGED <<config, model, theta, cache, param, tensor, call, prev, st, ckpt, train>>

(* One iteration of "for k in sd_keys": the shape assertion, then the copy   *)
(* into the target parameter.                                                *)
ImportKey ==
    /\ imp.pc = "copying"
    /\ LET cfg  == PretrainedConfig(imp.model_type)
           keys == FilterKeys(StateDictKeys(cfg))
       IN  /\ imp.i <= Len(keys)
           /\ IF ShapeAccepted(cfg, keys[imp.i], imp.bad)
              THEN imp' = [imp EXCEPT !.i = @ + 1, !.loaded = @ \cup {keys[imp.i]}]
              ELSE imp' = [imp EXCEPT !.pc = "error", !.err = "AssertionError"]
    /\ UNCHANGED <<config, model, theta, cache, param, tensor, call, prev, st, ckpt, train>>

\* return model
ImportReturn ==
    /\ imp.pc = "copying"
    /\ imp.i > Len(FilterKeys(StateDictKeys(PretrainedConfig(imp.model_type))))
    /\ imp' = [imp EXCEPT !.pc = "returned"]
    /\ UNCHANGED <<config, model, theta, cache, param, tensor, call, prev, st, ckpt, train>>

NextImport == FromPretrained \/ ImportKey \/ ImportReturn

SpecImport == Init /\ [][NextImport]_vars

(* ------------------------------ app.py ---------------------------------- *)
\* two of the entries of the sidebar selectbox
ModelOptions == {"ALIBI", "RoPE"}

\* what the user can type into the text input
Messages == {"hello", "again"}

Entry(role, content) == [role |-> role, content |-> content]

(* One run of the script, top to bottom.  Streamlit runs it again on every   *)
(* interaction: a new text, or a change of a sidebar widget while the text   *)
(* input keeps its value.  load_local_model at line 149 is outside any try;  *)
(* an exception in the generation is caught and the run is stopped.          *)
ScriptRun ==
    /\ Len(st.chat_history) + 2 <= MaxHistory
    /\ \E user_input \in {""} \cup Messages, model_option \in ModelOptions,
          use_remote \in BOOLEAN, loadRaises \in BOOLEAN, generateRaises \in BOOLEAN :
         LET mustLoad == ~use_remote /\ model_option \notin st.local_model_cache
             cached   == IF mustLoad THEN st.local_model_cache \cup {model_option}
                         ELSE st.local_model_cache
             withUser == Append(st.chat_history, Entry("user", user_input))
         IN  IF mustLoad /\ loadRaises
             THEN st' = [st EXCEPT !.user_input = user_input, !.run = "raised"]
             ELSE IF user_input = ""
             THEN st' = [st EXCEPT !.local_model_cache = cached,
                                   !.user_input = user_input, !.run = "idle"]
             ELSE IF generateRaises
             THEN st' = [local_model_cache |-> cached, chat_history |-> withUser,
                         user_input |-> user_input, run |-> "stopped"]
             ELSE st' = [local_model_cache |-> cached,
                         chat_history |-> Append(withUser, Entry("model", "response")),
                         user_input |-> user_input, run |-> "completed"]
    /\ UNCHANGED <<config, model, theta, cache, param, tensor, call, prev, imp, ckpt, train>>

NextApp == ScriptRun

SpecApp == Init /\ [][NextApp]_vars

(* A checkpoint key is a sequence of pieces: the wrapper prefixes "module."  *)
(* and "_orig_mod.", and pieces of a parameter name, none of which holds a   *)
(* part of a wrapper prefix.                                                 *)
Pieces == {"module.", "_orig_mod.", "transformer.", "weight"}

RECURSIVE KeysOfLen(_)
KeysOfLen(n) ==
    IF n = 0 THEN {<<>>}
    ELSE { <<p>> \o k : p \in Pieces, k \in KeysOfLen(n - 1) }

CheckpointKeys == UNION { KeysOfLen(n) : n \in 1 .. MaxKeyLen }

(* str.replace(old, ""): every occurrence of old, left to right and without  *)
(* overlap, is removed; the result is not scanned again.                     *)
RECURSIVE Replace(_, _)
Replace(k, old) ==
    IF Len(k) < Len(old) THEN k
    ELSE IF SubSeq(k, 1, Len(old)) = old
    THEN Replace(SubSeq(k, Len(old) + 1, Len(k)), old)
    ELSE <<Head(k)>> \o Replace(Tail(k), old)

\* k.replace("_orig_mod.", "").replace("module._orig_mod.", "")
NewKey(k) == Replace(Replace(k, <<"_orig_mod.">>), <<"module.", "_orig_mod.">>)

\* the one parameter the model of this checkpoint expects
ModelKey == <<"transformer.", "weight">>

(* load_local_model(selected_model) on a checkpoint of one entry: a cached   *)
(* model is returned as it is; otherwise the keys are rewritten and          *)
(* load_state_dict, which is strict, raises unless they are the model's.     *)
LoadLocalModel ==
    /\ \E selected_model \in ModelOptions, k \in CheckpointKeys :
         IF selected_model \in st.local_model_cache
         THEN /\ ckpt' = [pc |-> "cached", selected_model |-> selected_model]
              /\ UNCHANGED st
         ELSE IF NewKey(k) = ModelKey
         THEN /\ ckpt' = [pc |-> "loaded", selected_model |-> selected_model,
                          key |-> k, new_key |-> NewKey(k)]
              /\ st' = [st EXCEPT !.local_model_cache = @ \cup {selected_model}]
         ELSE /\ ckpt' = [pc |-> "RuntimeError", selected_model |-> selected_model,
                          key |-> k, new_key |-> NewKey(k)]
              /\ UNCHANGED st
    /\ UNCHANGED <<config, model, theta, cache, param, tensor, call, prev, imp, train>>

NextLoad == LoadLocalModel

SpecLoad == Init /\ [][NextLoad]_vars

(* ---------------------- gpt2_flash_sinusoidal.py ------------------------ *)
(* A learning rate is the term get_lr computes it with: max_lr * num / den   *)
(* in the warmup (min_lr = max_lr / 10 is max_lr * 1 / 10), and in the decay *)
(* min_lr + 0.5 * (max_lr - min_lr) * (1 + cos(pi * num / den)).             *)
min_lr == [kind |-> "linear", num |-> 1, den |-> 10]

get_lr(it) ==
    IF it < warmup_steps
    THEN [kind |-> "linear", num |-> it + 1, den |-> warmup_steps]
    ELSE IF it > max_steps
    THEN min_lr
    \* decay_ratio = 1: 1 + cos(pi) is 0 and the sum is min_lr
    ELSE IF it - warmup_steps = max_steps - warmup_steps
    THEN min_lr
    ELSE [kind |-> "cosine", num |-> it - warmup_steps, den |-> max_steps - warmup_steps]

\* total_batch_size // (B * T), with total_batch_size = 2**19 and B, T = 4, 1024
grad_accum_steps == 524288 \div (4 * 1024)

\* one iteration of "for micro_step in range(grad_accum_steps)"
TrainMicroStep ==
    /\ train.pc = "accumulate"
    /\ train.micro_step < grad_accum_steps
    /\ train' = [train EXCEPT !.micro_step = @ + 1]
    /\ UNCHANGED <<config, model, theta, cache, param, tensor, call, prev, imp, st, ckpt>>

\* clip_grad_norm_, lr = get_lr(i) written to every param_group, optimizer.step()
TrainStep ==
    /\ train.pc = "accumulate"
    /\ train.micro_step = grad_accum_steps
    /\ train' = [train EXCEPT !.pc = "log", !.lr = get_lr(train.i),
                              !.stepped = Append(@, get_lr(train.i))]
    /\ UNCHANGED <<config, model, theta, cache, param, tensor, call, prev, imp, st, ckpt>>

\* wandb.log({... 'epochs': i, "learning_rate": get_lr(i - 1) ...}), then the next i
TrainLog ==
    /\ train.pc = "log"
    /\ train' = [train EXCEPT
                   !.log = Append(@, [epochs |-> train.i,
                                      learning_rate |-> get_lr(train.i - 1)]),
                   !.i = @ + 1,
                   !.micro_step = 0,
                   !.pc = IF train.i + 1 < max_steps THEN "accumulate" ELSE "done"]
    /\ UNCHANGED <<config, model, theta, cache, param, tensor, call, prev, imp, st, ckpt>>

NextTrain == TrainMicroStep \/ TrainStep \/ TrainLog

SpecTrain == Init /\ [][NextTrain]_vars

(* ======================= properties of the rotation ===================== *)
(* The rotation of the specification: the pair (2i, 2i+1) of vec turned by   *)
(* the cosine and sine of entry i of the cache row crow.                     *)
SpecRotate(vec, crow) ==
    [e \in DOMAIN vec |->
       LET i == e \div 2
       IN  IF e % 2 = 0
           THEN Sub(Mul(vec[2 * i], crow[i][0]), Mul(vec[2 * i + 1], crow[i][1]))
           ELSE Add(Mul(vec[2 * i + 1], crow[i][0]), Mul(vec[2 * i], crow[i][1]))]

\* the angle p * base^(-2j / hd) of the specification
SpecAngle(p, j, hd) ==
    LET g == GCD(2 * j, hd)
    IN  IF p = 0 THEN [pos |-> 0, base |-> Base, num |-> 0, den |-> 1]
        ELSE [pos |-> p, base |-> Base, num |-> (2 * j) \div g, den |-> hd \div g]

AttnDone == call.kind = "attn" /\ call.res.status = "ok"

(* C1: in CausalSelfAttention.forward the query and the keys of position t   *)
(* are rotated with the cache row of position t, for every head.             *)
C1_RotationByPosition ==
    (AttnDone /\ call.T <= config.block_size) =>
        LET rot == Attn_rope(config, cache, call.B, call.T)
        IN  \A b \in 0 .. call.B - 1, h \in 0 .. config.n_head - 1,
               t \in 0 .. call.T - 1 :
               /\ rot.q.out[b][h][t] =
                    SpecRotate(HeadView(config, 0, call.B, call.T)[b][h][t], cache.at[t])
               /\ rot.k.out[b][h][t] =
                    SpecRotate(HeadView(config, 1, call.B, call.T)[b][h][t], cache.at[t])

RopeCalled == call.kind = "rope"

(* C2: RotaryPositionEmbeddings.forward on x of shape [b, seq_len, nh, hs],  *)
(* hs even and no larger than the head size, seq_len <= block_size, returns  *)
(* a tensor of the shape of x whose pair i at position p is the pair of x    *)
(* turned by entry i of cache row p, whatever the batch element and head.    *)
C2_RotationFormula ==
    (/\ RopeCalled
     /\ call.inShape[4] % 2 = 0
     /\ call.inShape[4] \div 2 <= cache.cols
     /\ call.inShape[2] <= config.block_size) =>
        /\ call.res.status = "ok"
        /\ call.res.shape = call.inShape
        /\ \A b \in 0 .. call.inShape[1] - 1, p \in 0 .. call.inShape[2] - 1,
              h \in 0 .. call.inShape[3] - 1 :
              call.res.out[b][p][h] = SpecRotate(call.x[b][p][h], cache.at[p])

\* a call on two batch elements, two positions, two heads and two pairs
C2_Witness ==
    /\ RopeCalled
    /\ call.inShape = <<2, 2, 2, 4>>
    /\ HeadDim(config) = 4
    /\ config.block_size >= 2
    /\ call.res.status = "ok"
    /\ call.res.out[1][1][1][3] # call.res.out[1][0][1][3]

(* C5: the cache holds, at position p and frequency j, the cosine and sine   *)
(* of p * base^(-2j / head_dim), head_dim = n_embed / n_head.                *)
C5_CacheAngles ==
    (model # "none" /\ model # "rejected" /\ config.n_embed % config.n_head = 0) =>
        \A p \in 0 .. config.block_size - 1, j \in 0 .. (HeadDim(config) \div 2) - 1 :
            /\ cache.at[p][j][0] = [fn |-> "cos", ang |-> SpecAngle(p, j, HeadDim(config))]
            /\ cache.at[p][j][1] = [fn |-> "sin", ang |-> SpecAngle(p, j, HeadDim(config))]

(* C9: a request for more positions than block_size fails with an error.     *)
C9_TooLongFails ==
    /\ (RopeCalled /\ call.inShape[2] > config.block_size) => call.res.status = "error"
    /\ (call.kind = "gpt" /\ call.T > config.block_size) => call.res.status = "error"

(* ======================= properties of the forward ====================== *)
BothDone ==
    /\ prev # NoCall
    /\ prev.res.status = "ok"
    /\ call.res.status = "ok"

\* the two inputs agree at every position up to t
AgreeUpTo(t) ==
    \A b \in 0 .. call.B - 1, s \in 0 .. t : prev.x[b][s] = call.x[b][s]

(* C3: two inputs that agree at all positions <= t give the same output at   *)
(* position t, for CausalSelfAttention.forward and for rope_GPT.forward.     *)
C3_Causal ==
    BothDone =>
        \A t \in 0 .. call.T - 1 :
            AgreeUpTo(t) =>
                \A b \in 0 .. call.B - 1 : prev.res.out[b][t] = call.res.out[b][t]

\* two models calls whose inputs first differ at position 2, and whose outputs
\* there differ
C3_Witness ==
    /\ BothDone
    /\ call.kind = "gpt"
    /\ config.n_layer >= 2
    /\ config.n_head >= 2
    /\ call.T = 3
    /\ AgreeUpTo(1)
    /\ ~AgreeUpTo(2)
    /\ prev.res.out[0][2] # call.res.out[0][2]

(* C4: with n_head dividing n_embed and an even head_dim, the attention      *)
(* forward on [B, T, n_embed], 1 <= T <= block_size, completes and returns   *)
(* a tensor of the shape of its input.                                       *)
C4_ForwardCompletes ==
    (/\ call.kind = "attn"
     /\ HeadDim(config) % 2 = 0
     /\ call.T >= 1
     /\ call.T <= config.block_size) =>
        /\ call.res.status = "ok"
        /\ call.res.shape = <<call.B, call.T, config.n_embed>>

(* C10: an odd head_dim is rejected at construction or at the very start of   *)
(* a forward call, before any projection, cache slicing or rotation.          *)
C10_OddHeadDimRejected ==
    (config.n_head > 0 /\ config.n_embed % config.n_head = 0
       /\ HeadDim(config) % 2 = 1) =>
        \/ model = "rejected"
        \/ call.kind \in {"attn", "gpt"} =>
              (call.res.status = "error" /\
               \A n \in DOMAIN call.res.done :
                   call.res.done[n] \notin {"c_attn", "split", "view", "slice",
                                            "reshape", "rotate"})

(* ======================= properties of the weights ====================== *)
(* C6: after construction, and after every later write, lm_head.weight and   *)
(* transformer.wte.weight are one tensor: what is read through one name is   *)
(* what is read through the other.                                           *)
C6_WeightTying ==
    model = "built" =>
        /\ param[LmHead] = param[Wte]
        /\ tensor[param[LmHead]] = tensor[param[Wte]]

\* the tied weight after an optimizer step and a copy through lm_head
C6_Witness ==
    /\ model = "built"
    /\ tensor[param[Wte]].writes = <<"step", "lm_head">>

(* C7: at construction attn.c_proj and mlp.c_proj of every block are         *)
(* initialised with std 0.02 / sqrt(2 * n_layer), every other linear layer   *)
(* with std 0.02.                                                            *)
C7_InitStd ==
    (model = "built" /\ tensor[param[Wte]].writes = <<>>) =>
        \A i \in DOMAIN Modules(config) :
            LET m == Modules(config)[i]
                w == tensor[param[Slot(m, "weight")]]
            IN  m.type = "Linear" =>
                  /\ w.dist = "normal"
                  /\ w.ivar = IF m.name \in {"attn.c_proj", "mlp.c_proj"}
                              THEN InitInvVar * 2 * config.n_layer
                              ELSE InitInvVar

(* ======================= properties of the import ======================= *)
(* C8: when the shape of a parameter does not match its source counterpart,  *)
(* from_pretrained fails with an assertion error, and at the failure no      *)
(* parameter of the target has been overwritten.                             *)
C8_NoPartialLoad ==
    (imp.pc \in {"error", "returned"} /\ imp.bad # {}) =>
        /\ imp.pc = "error"
        /\ imp.err = "AssertionError"
        /\ imp.loaded = {}

(* ================= properties of the rotation as algebra ================ *)
(* The rotated elements are polynomials in the input elements and in the    *)
(* cosines and sines of the cache.  They are compared in the field of the   *)
(* integers modulo 7, where the points (c, s) with c*c + s*s = 1 are the    *)
(* rotations: an identity of the rotation's algebra holds there for every   *)
(* choice of the rotation that stands for each frequency.                   *)
Fp(n) == n % 7

Units == { z \in (0 .. 6) \X (0 .. 6) : Fp(z[1] * z[1] + z[2] * z[2]) = 1 }

\* the product of two rotations: the cosine and sine of the sum of the angles
UMul(a, b) == << Fp(a[1] * b[1] - a[2] * b[2]), Fp(a[1] * b[2] + a[2] * b[1]) >>

RECURSIVE UPow(_, _)
UPow(z, n) == IF n = 0 THEN <<1, 0>> ELSE UMul(z, UPow(z, n - 1))

\* the frequencies theta[j] of the columns the cache keeps
Freqs == { <<theta[j].num, theta[j].den>> : j \in 0 .. cache.cols - 1 }

\* the value of a cache entry when u[f] is the rotation by the angle of frequency f
Trig(entry, u) ==
    LET z == IF entry.ang.pos = 0 THEN <<1, 0>>
             ELSE UPow(u[<<entry.ang.num, entry.ang.den>>], entry.ang.pos)
    IN  IF entry.fn = "cos" THEN z[1] ELSE z[2]

\* the coefficients of an element of a rotated vector on the n input elements
RECURSIVE Lin(_, _, _)
Lin(t, u, n) ==
    IF "op" \notin DOMAIN t
    THEN [a \in 0 .. n - 1 |-> IF a = t.e THEN 1 ELSE 0]
    ELSE IF t.op = "mul"
    THEN LET l == Lin(t.l, u, n)
             c == Trig(t.r, u)
         IN  [a \in 0 .. n - 1 |-> Fp(l[a] * c)]
    ELSE LET l == Lin(t.l, u, n)
             r == Lin(t.r, u, n)
         IN  IF t.op = "add"
             THEN [a \in 0 .. n - 1 |-> Fp(l[a] + r[a])]
             ELSE [a \in 0 .. n - 1 |-> Fp(l[a] - r[a])]

\* the matrix of a rotated vector: row e holds the coefficients of element e
Matrix(vec, u, n) == [e \in 0 .. n - 1 |-> Lin(vec[e], u, n)]

\* the matrix of an unrotated vector
Unrotated(n) == [e \in 0 .. n - 1 |-> [a \in 0 .. n - 1 |-> IF a = e THEN 1 ELSE 0]]

RECURSIVE DotSum(_, _, _, _, _)
DotSum(Q, K, a, b, e) ==
    IF e < 0 THEN 0 ELSE Fp(Q[e][a] * K[e][b] + DotSum(Q, K, a, b, e - 1))

(* The dot product of the vectors Q q and K k as a bilinear form: entry      *)
(* [a][b] is the coefficient of q[a] * k[b].                                 *)
Score(Q, K, n) ==
    [a \in 0 .. n - 1 |-> [b \in 0 .. n - 1 |-> DotSum(Q, K, a, b, n - 1)]]

RopeInRange ==
    /\ RopeCalled
    /\ call.inShape[4] % 2 = 0
    /\ call.inShape[4] \div 2 <= cache.cols
    /\ call.inShape[2] <= config.block_size

(* C11: for positions p_q and p_k within block_size, the dot product of a    *)
(* query rotated at p_q with a key rotated at p_k is the dot product of the  *)
(* unrotated query with the key rotated at p_k - p_q (for p_k < p_q, of the  *)
(* query rotated at p_q - p_k with the unrotated key): it depends on the two *)
(* positions through their difference only.                                  *)
C11_RelativePosition ==
    RopeInRange =>
        /\ call.res.status = "ok"
        /\ \A u \in [Freqs -> Units] :
              LET n == call.inShape[4]
                  R == [p \in 0 .. call.inShape[2] - 1 |->
                          Matrix(call.res.out[0][p][0], u, n)]
              IN  \* every batch element and head is rotated as the first is
                  /\ \A b \in 0 .. call.inShape[1] - 1, h \in 0 .. call.inShape[3] - 1,
                        p \in DOMAIN R : Matrix(call.res.out[b][p][h], u, n) = R[p]
                  /\ \A pq \in DOMAIN R, pk \in DOMAIN R :
                        Score(R[pq], R[pk], n) =
                           IF pk >= pq THEN Score(Unrotated(n), R[pk - pq], n)
                           ELSE Score(R[pq - pk], Unrotated(n), n)

\* three positions of a vector of two pairs have been rotated, each differently
C11_Witness ==
    /\ RopeInRange
    /\ call.res.status = "ok"
    /\ call.inShape[2] = 3
    /\ call.inShape[4] = 4
    /\ \E u \in [Freqs -> Units] :
         /\ Matrix(call.res.out[0][1][0], u, 4) # Unrotated(4)
         /\ Matrix(call.res.out[0][2][0], u, 4) # Matrix(call.res.out[0][1][0], u, 4)
         /\ Score(Matrix(call.res.out[0][1][0], u, 4),
                  Matrix(call.res.out[0][2][0], u, 4), 4) # Score(Unrotated(4), Unrotated(4), 4)

(* ======================= properties of the cache ======================== *)
\* the cache of a module constructed with block_size = l and the rest of config
DirectCache(l) ==
    build_rope_cache([config EXCEPT !.block_size = l],
                     rope_init([config EXCEPT !.block_size = l]))

(* C12: for every l <= block_size the cache sliced to sequence length l is,  *)
(* row for row, the cache built directly for block_size = l with the same    *)
(* n_embed, n_head and base; the slice forward takes for a call of length l  *)
(* is that prefix.                                                           *)
C12_CachePrefix ==
    (model = "rope") =>
        /\ \A l \in 1 .. config.block_size :
              LET sl == Slice(cache, l, HeadDim(config))
              IN  /\ sl.rows = l
                  /\ sl.cols = DirectCache(l).cols
                  /\ \A p \in 0 .. l - 1 : sl.at[p] = DirectCache(l).at[p]
        /\ (RopeInRange /\ call.inShape[4] = HeadDim(config)) =>
              Slice(cache, call.inShape[2], call.inShape[4]) = DirectCache(call.inShape[2])

\* a call shorter than block_size whose slice holds two different rows
C12_Witness ==
    /\ RopeInRange
    /\ call.res.status = "ok"
    /\ call.inShape[2] = 2
    /\ config.block_size = 3
    /\ call.inShape[4] = HeadDim(config)
    /\ HeadDim(config) = 4
    /\ Slice(cache, 2, 4).at[1] # Slice(cache, 2, 4).at[0]
    /\ Slice(cache, 2, 4).at[1] # cache.at[2]

(* ==================== properties of the chat history ==================== *)
(* C13: after any sequence of script runs, chat_history alternates user,     *)
(* model, user, model, ... starting with user.                               *)
C13_HistoryAlternates ==
    \A k \in 1 .. Len(st.chat_history) :
        st.chat_history[k].role = IF k % 2 = 1 THEN "user" ELSE "model"

(* ================== properties of the checkpoint keys =================== *)
\* a name that holds no wrapper prefix
PlainName(name) ==
    /\ name # <<>>
    /\ \A i \in DOMAIN name : name[i] \notin {"module.", "_orig_mod."}

KeyRewritten == ckpt.pc \in {"loaded", "RuntimeError"}

(* C14: load_local_model maps a key '_orig_mod.<name>' and a key             *)
(* 'module._orig_mod.<name>' both to '<name>' before load_state_dict.         *)
C14_PrefixesRemoved ==
    KeyRewritten =>
        /\ (ckpt.key[1] = "_orig_mod." /\ PlainName(Tail(ckpt.key))) =>
              ckpt.new_key = Tail(ckpt.key)
        /\ (/\ Len(ckpt.key) >= 2
            /\ ckpt.key[1] = "module."
            /\ ckpt.key[2] = "_orig_mod."
            /\ PlainName(Tail(Tail(ckpt.key)))) =>
              ckpt.new_key = Tail(Tail(ckpt.key))

(* =================== properties of the training loop ==================== *)
(* C15: the learning_rate logged for step i is the learning rate that was    *)
(* set on the parameter groups for that step's optimizer.step(), get_lr(i).  *)
C15_LoggedLearningRate ==
    \A k \in DOMAIN train.log :
        /\ train.log[k].epochs = k - 1
        /\ train.log[k].learning_rate = train.stepped[k]
        /\ train.log[k].learning_rate = get_lr(k - 1)

====
